---------------------------- MODULE Spec2Model ----------------------------
(***************************************************************************)
(* Entity adapters of the Honeywell Lyric integration                      *)
(* (custom_components/lyric_my/entity.py): LyricEntity, LyricDeviceEntity, *)
(* LyricAccessoryEntity and LyricLeakEntity, read-only views over the      *)
(* snapshot held by the polling coordinator (coordinator.data).            *)
(*                                                                         *)
(* Python values are modelled as follows.  A dict is a TLA+ function whose *)
(* DOMAIN is the set of its keys; a list is a sequence; an object is a     *)
(* record of its attributes; a str is a string and an f-string is string   *)
(* concatenation; None, where the other values are strings, is the string  *)
(* that str(None) gives.  The outcome of a property read is Return(v),     *)
(* ReturnNone (the function falls off its end) or Raise(exception).        *)
(***************************************************************************)
EXTENDS Integers, Sequences, FiniteSets, TLC

VARIABLES
    data,    \* coordinator.data: the current snapshot
    ent,     \* the adapter object (its instance attributes), NoEntity before __init__
    given,   \* the arguments __init__ was called with
    pc,      \* "new" | "idle" | "run" | "done": where the host's call is
    prop,    \* the property being read while pc is "run" or "done"
    called,  \* the snapshot that was current when the property was called
    obs,     \* the snapshots seen so far by the read, one per evaluation of coordinator.data
    ret      \* the outcome handed to the caller while pc = "done"

vars == <<data, ent, given, pc, prop, called, obs, ret>>

----------------------------------------------------------------------------
\* Bounds of the model.

\* Longest `devices` list of a location.
MaxDevices == 2

\* Longest `accessories` list of a room.
MaxAccessories == 2

----------------------------------------------------------------------------
\* Python values.

None == "None"

Return(v) == [out |-> "return", value |-> v]

ReturnNone == [out |-> "none"]

Raise(e) == [out |-> "raise", exc |-> e]

NoEntity == [cls |-> "unconstructed"]

NoSnapshot == [absent |-> TRUE]

NoOutcome == [out |-> "pending"]

EmptyDict == <<>>

\* len(v): defined on a str, a TypeError on None.
HasLen(v) == v # None

Digits == <<"0", "1", "2", "3", "4", "5", "6", "7", "8", "9">>

\* str(n) of a non-negative int, as an f-string formats it.
RECURSIVE DecStr(_)
DecStr(n) ==
    IF n < 10 THEN Digits[n + 1]
    ELSE DecStr(n \div 10) \o Digits[(n % 10) + 1]

\* Sequences over S of length at most n.
SeqUpTo(S, n) == UNION {[1..k -> S] : k \in 0..n}

\* {key(x): x for x in xs}: a later element replaces an earlier one with the same key.
RECURSIVE IndexByMac(_)
IndexByMac(devs) ==
    IF devs = <<>> THEN EmptyDict
    ELSE LET last == devs[Len(devs)]
             rest == IndexByMac(SubSeq(devs, 1, Len(devs) - 1))
         IN  (last.mac_id :> last) @@ rest

RECURSIVE IndexByDeviceId(_)
IndexByDeviceId(devs) ==
    IF devs = <<>> THEN EmptyDict
    ELSE LET last == devs[Len(devs)]
             rest == IndexByDeviceId(SubSeq(devs, 1, Len(devs) - 1))
         IN  (last.device_id :> last) @@ rest

----------------------------------------------------------------------------
\* Names fixed by the program and its host.

\* homeassistant.helpers.device_registry.CONNECTION_NETWORK_MAC
CONNECTION_NETWORK_MAC == "mac"

\* .const.DOMAIN
LyricDomain == "lyric_my"

----------------------------------------------------------------------------
\* The value objects of the external client library, as the adapters read them.

Device(mac, id, name, model, type, attrs) ==
    [mac_id |-> mac, device_id |-> id, name |-> name, device_model |-> model,
     device_type |-> type, attributes |-> attrs]

\* attributes["deviceSettings"]: a mapping, or a value that is no mapping.
Settings(isMapping, items) == [mapping |-> isMapping, items |-> items]

Thermostat(mac, name, model) ==
    Device(mac, "LCC-" \o mac, name, model, "Thermostat", EmptyDict)

Leak(id, attrs) ==
    Device(None, id, None, None, "Water Leak Detector", attrs)

Macs == {"AA:BB", "CC:DD"}

Thermostats ==
    {Thermostat(m, nm[1], nm[2]) : m \in Macs, nm \in {<<"Office", "T5">>, <<"Den", "T9">>}}

Named(n) == "deviceSettings" :> Settings(TRUE, "userDefinedName" :> n)

LeakDevices ==
    { Leak("d1", Named("Basement")),
      Leak("d1", "deviceSettings" :> Settings(TRUE, EmptyDict)),
      Leak("d1", "deviceSettings" :> Settings(FALSE, EmptyDict)),
      Leak("d1", EmptyDict),
      Leak("d2", Named("Garage")),
      Leak(None, Named("Attic")) }

Location(id, devs, dict) == [location_id |-> id, devices |-> devs, devices_dict |-> dict]

Accessory(id, temp) == [id |-> id, temperature |-> temp]

Room(id, name, accs) == [id |-> id, room_name |-> name, accessories |-> accs]

Snapshot(locs, rooms) == [locations_dict |-> locs, rooms_dict |-> rooms]

LocationIds == {101, 102}

Accessories == {Accessory(0, 20), Accessory(0, 25), Accessory(1, 20)}

Rooms ==
    {Room(i, n, a) : i \in {1, 2}, n \in {"Kitchen", "Hall"},
                     a \in SeqUpTo(Accessories, MaxAccessories)}

Home == Location(101, <<Thermostat("AA:BB", "Office", "T5")>>,
                 IndexByMac(<<Thermostat("AA:BB", "Office", "T5")>>))

\* Snapshots a thermostat adapter is read against.
ThermostatSnapshots ==
    {Snapshot(EmptyDict, EmptyDict)} \cup
    {Snapshot(l :> Location(l, d, IndexByMac(d)), EmptyDict) :
        l \in LocationIds, d \in SeqUpTo(Thermostats, MaxDevices)}

\* Snapshots an accessory adapter is read against.
AccessorySnapshots ==
    {Snapshot(EmptyDict, EmptyDict), Snapshot(101 :> Home, EmptyDict)} \cup
    {Snapshot(101 :> Home, m :> (r.id :> r)) : m \in Macs, r \in Rooms}

\* Snapshots a leak adapter is read against: devices_dict keyed by MAC or by device id.
LeakSnapshots ==
    {Snapshot(EmptyDict, EmptyDict)} \cup
    {Snapshot(101 :> Location(101, d, IndexByMac(d)), EmptyDict) :
        d \in SeqUpTo(LeakDevices, MaxDevices)} \cup
    {Snapshot(101 :> Location(101, d, IndexByDeviceId(d)), EmptyDict) :
        d \in SeqUpTo(LeakDevices, MaxDevices)}

Classes == {"LyricEntity", "LyricDeviceEntity", "LyricAccessoryEntity", "LyricLeakEntity"}

SnapshotsFor(cls) ==
    CASE cls = "LyricLeakEntity"      -> LeakSnapshots
      [] cls = "LyricAccessoryEntity" -> AccessorySnapshots
      [] OTHER                        -> ThermostatSnapshots

\* Snapshots an adapter is set up over.
SetupSnapshots(cls) ==
    CASE cls = "LyricLeakEntity" ->
            LET d1 == <<Leak("d1", Named("Basement")), Leak("d2", Named("Garage"))>>
                d2 == <<Leak(None, Named("Attic")), Leak("d1", Named("Basement"))>>
            IN  { Snapshot(101 :> Location(101, d1, IndexByMac(d1)), EmptyDict),
                  Snapshot(101 :> Location(101, d2, IndexByDeviceId(d2)), EmptyDict) }
      [] cls = "LyricAccessoryEntity" ->
            { Snapshot(101 :> Home,
                       "AA:BB" :> (1 :> Room(1, "Kitchen",
                                             <<Accessory(0, 20), Accessory(1, 20)>>))) }
      [] OTHER ->
            LET d == <<Thermostat("AA:BB", "Office", "T5"), Thermostat("CC:DD", "Den", "T9")>>
            IN  { Snapshot(101 :> Location(101, d, IndexByMac(d)), EmptyDict) }

Keys == {"AA:BB_temperature", "d1_battery"}


----------------------------------------------------------------------------
\* Construction.

\* coordinator.data.<name>: a method object bound to the snapshot it was read from.
BoundMethod(obj, name) == [im_self |-> obj, im_func |-> name]

\* LyricEntity.__init__, which LyricDeviceEntity inherits.
LyricEntityInit(cls, coordinator_data, location, device, key) ==
    [cls |-> cls,
     coordinator |-> "coordinator",
     _key |-> key,
     _location |-> location,
     _mac_id |-> device.mac_id,
     _update_thermostat |-> BoundMethod(coordinator_data, "update_thermostat"),
     _update_fan |-> BoundMethod(coordinator_data, "update_fan")]

LyricAccessoryEntityInit(coordinator_data, location, device, room, accessory, key) ==
    LyricEntityInit("LyricAccessoryEntity", coordinator_data, location, device, key)
        @@ [_room_id |-> room.id, _accessory_id |-> accessory.id]

\* LyricLeakEntity.__init__ keeping the device object as well.
LyricLeakEntityInitKeepingDevice(coordinator_data, location, device, key) ==
    [cls |-> "LyricLeakEntity",
     coordinator |-> "coordinator",
     _key |-> key,
     _location |-> location,
     _device |-> device,
     _device_id |-> device.device_id]

LyricLeakEntityInit(coordinator_data, location, device, key) ==
    [cls |-> "LyricLeakEntity",
     coordinator |-> "coordinator",
     _key |-> key,
     _location |-> location,
     _device_id |-> device.device_id]

----------------------------------------------------------------------------
\* Property reads.  A read sees the snapshot through o = [seen, cur]: its i-th
\* evaluation of coordinator.data gave o.seen[i], and an evaluation still to come
\* gives o.cur.  Each operator returns [res, used]: the outcome, and the number of
\* the last evaluation of coordinator.data it made.

At(o, i) == IF i <= Len(o.seen) THEN o.seen[i] ELSE o.cur

Against(s) == [seen |-> <<>>, cur |-> s]

Eval(res, used) == [res |-> res, used |-> used]

\* unique_id prefixed with the class name.
UniqueIdPrefixed(e, o, i) == Eval(Return(e.cls \o "_" \o e._key), i - 1)

\* LyricEntity.unique_id, LyricLeakEntity.unique_id
UniqueId(e, o, i) == Eval(Return(e._key), i - 1)

\* LyricEntity.location, LyricLeakEntity.location
LocationOf(e, o, i) ==
    LET locations_dict == At(o, i).locations_dict
        location_id    == e._location.location_id
    IN  IF location_id \in DOMAIN locations_dict
        THEN Eval(Return(locations_dict[location_id]), i)
        ELSE Eval(Raise("KeyError"), i)

\* LyricEntity.device reading the location object kept at construction.
DeviceOfStale(e, o, i) ==
    IF e._mac_id \in DOMAIN e._location.devices_dict
    THEN Eval(Return(e._location.devices_dict[e._mac_id]), i)
    ELSE Eval(Raise("KeyError"), i)

\* LyricEntity.device
DeviceOf(e, o, i) ==
    LET location == LocationOf(e, o, i)
    IN  IF location.res.out = "raise" THEN location
        ELSE IF e._mac_id \in DOMAIN location.res.value.devices_dict
        THEN Eval(Return(location.res.value.devices_dict[e._mac_id]), i)
        ELSE Eval(Raise("KeyError"), i)

\* LyricDeviceEntity.device_info naming the device from the location kept at construction.
DeviceInfoStaleName(e, o, i) ==
    LET model == DeviceOf(e, o, i)
        name  == DeviceOf(e, o, i + 1)
    IN  IF model.res.out = "raise" THEN model
        ELSE IF name.res.out = "raise" THEN name
        ELSE Eval(Return([identifiers  |-> {<<CONNECTION_NETWORK_MAC, e._mac_id>>},
                          connections  |-> {<<CONNECTION_NETWORK_MAC, e._mac_id>>},
                          manufacturer |-> "Honeywell",
                          model        |-> model.res.value.device_model,
                          name         |-> DeviceOfStale(e, o, i).res.value.name
                                               \o " Thermostat"]),
                  i + 1)

\* LyricDeviceEntity.device_info
DeviceInfo(e, o, i) ==
    LET model == DeviceOf(e, o, i)
        name  == DeviceOf(e, o, i + 1)
    IN  IF model.res.out = "raise" THEN model
        ELSE IF name.res.out = "raise" THEN name
        ELSE Eval(Return([identifiers  |-> {<<CONNECTION_NETWORK_MAC, e._mac_id>>},
                          connections  |-> {<<CONNECTION_NETWORK_MAC, e._mac_id>>},
                          manufacturer |-> "Honeywell",
                          model        |-> model.res.value.device_model,
                          name         |-> name.res.value.name \o " Thermostat"]),
                  i + 1)

\* LyricAccessoryEntity.room
RoomOf(e, o, i) ==
    LET rooms_dict == At(o, i).rooms_dict
    IN  IF e._mac_id \notin DOMAIN rooms_dict THEN Eval(Raise("KeyError"), i)
        ELSE IF e._room_id \notin DOMAIN rooms_dict[e._mac_id] THEN Eval(Raise("KeyError"), i)
        ELSE Eval(Return(rooms_dict[e._mac_id][e._room_id]), i)

\* next(..., None): a default instead of StopIteration.
RECURSIVE NextAccessoryOrNone(_, _, _)
NextAccessoryOrNone(accessories, accessory_id, k) ==
    IF k > Len(accessories) THEN ReturnNone
    ELSE IF accessories[k].id = accessory_id THEN Return(accessories[k])
    ELSE NextAccessoryOrNone(accessories, accessory_id, k + 1)

\* next(accessory for accessory in accessories if accessory.id == accessory_id), from the k-th on
RECURSIVE NextAccessory(_, _, _)
NextAccessory(accessories, accessory_id, k) ==
    IF k > Len(accessories) THEN Raise("StopIteration")
    ELSE IF accessories[k].id = accessory_id THEN Return(accessories[k])
    ELSE NextAccessory(accessories, accessory_id, k + 1)

\* LyricAccessoryEntity.accessory
AccessoryOf(e, o, i) ==
    LET room == RoomOf(e, o, i)
    IN  IF room.res.out = "raise" THEN room
        ELSE Eval(NextAccessory(room.res.value.accessories, e._accessory_id, 1), i)

\* The identifier string without the room.
AccessoryIdentifierNoRoom(mac_id, room_id, accessory_id) ==
    mac_id \o "_accessory" \o DecStr(accessory_id)

\* The identifier string of LyricAccessoryEntity.device_info.
AccessoryIdentifier(mac_id, room_id, accessory_id) ==
    mac_id \o "_room" \o DecStr(room_id) \o "_accessory" \o DecStr(accessory_id)

\* LyricAccessoryEntity.device_info
AccessoryDeviceInfo(e, o, i) ==
    LET room == RoomOf(e, o, i)
    IN  IF room.res.out = "raise" THEN room
        ELSE Eval(Return([identifiers  |-> {<<CONNECTION_NETWORK_MAC \o "_room_accessory",
                                              AccessoryIdentifier(e._mac_id, e._room_id,
                                                                  e._accessory_id)>>},
                          manufacturer |-> "Honeywell",
                          model        |-> "RCHTSENSOR",
                          name         |-> room.res.value.room_name \o " Sensor",
                          via_device   |-> <<CONNECTION_NETWORK_MAC, e._mac_id>>]),
                  i)

\* The for loop of LyricLeakEntity.device, from the k-th device on.  The arguments of
\* the debug call of a non-matching device are evaluated before the call:
\* len(dev.device_id) and len(self._device_id).
RECURSIVE ScanDevices(_, _, _)
ScanDevices(devices, device_id, k) ==
    IF k > Len(devices) THEN ReturnNone
    ELSE IF devices[k].device_id = device_id THEN Return(devices[k])
    ELSE IF ~HasLen(devices[k].device_id) \/ ~HasLen(device_id) THEN Raise("TypeError")
    ELSE ScanDevices(devices, device_id, k + 1)

\* LyricLeakEntity.device
LeakDeviceOf(e, o, i) ==
    LET first  == LocationOf(e, o, i)
        second == LocationOf(e, o, i + 1)
        third  == LocationOf(e, o, i + 2)
    IN  IF first.res.out = "raise" THEN first
        ELSE IF e._device_id \in DOMAIN first.res.value.devices_dict
        THEN \* lookup is a device object, which is true
             IF second.res.out = "raise" THEN second
             ELSE IF e._device_id \in DOMAIN second.res.value.devices_dict
             THEN Eval(Return(second.res.value.devices_dict[e._device_id]), i + 1)
             ELSE Eval(Raise("KeyError"), i + 1)
        ELSE \* len(self.location.devices), then the loop over self.location.devices
             IF second.res.out = "raise" THEN second
             ELSE IF third.res.out = "raise" THEN third
             ELSE Eval(ScanDevices(third.res.value.devices, e._device_id, 1), i + 2)

\* attributes.get("deviceSettings", {}).get("userDefinedName"): None for a missing name.
UserDefinedNameOrNone(attributes) ==
    IF "deviceSettings" \notin DOMAIN attributes THEN Return(None)
    ELSE IF ~attributes["deviceSettings"].mapping THEN Raise("AttributeError")
    ELSE IF "userDefinedName" \notin DOMAIN attributes["deviceSettings"].items
    THEN Return(None)
    ELSE Return(attributes["deviceSettings"].items["userDefinedName"])

\* attributes.get("deviceSettings", None)["userDefinedName"]
UserDefinedName(attributes) ==
    IF "deviceSettings" \notin DOMAIN attributes THEN Raise("TypeError")
    ELSE IF ~attributes["deviceSettings"].mapping THEN Raise("TypeError")
    ELSE IF "userDefinedName" \notin DOMAIN attributes["deviceSettings"].items
    THEN Raise("KeyError")
    ELSE Return(attributes["deviceSettings"].items["userDefinedName"])

\* LyricLeakEntity.device_info
LeakDeviceInfo(e, o, i) ==
    LET model == LeakDeviceOf(e, o, i)
        named == LeakDeviceOf(e, o, model.used + 1)
        type  == LeakDeviceOf(e, o, named.used + 1)
    IN  IF model.res.out = "raise" THEN model
        ELSE IF model.res.out = "none" THEN Eval(Raise("AttributeError"), model.used)
        ELSE IF named.res.out = "raise" THEN named
        ELSE IF named.res.out = "none" THEN Eval(Raise("AttributeError"), named.used)
        ELSE IF UserDefinedName(named.res.value.attributes).out = "raise"
        THEN Eval(UserDefinedName(named.res.value.attributes), named.used)
        ELSE IF type.res.out = "raise" THEN type
        ELSE IF type.res.out = "none" THEN Eval(Raise("AttributeError"), type.used)
        ELSE Eval(Return([identifiers  |-> {<<LyricDomain, e._device_id>>},
                          manufacturer |-> "Honeywell",
                          model        |-> model.res.value.device_type,
                          name         |-> UserDefinedName(named.res.value.attributes).value
                                               \o " " \o type.res.value.device_type]),
                  type.used)

\* The properties of each class.
Props(cls) ==
    CASE cls = "LyricEntity"          -> {"unique_id", "location", "device"}
      [] cls = "LyricDeviceEntity"    -> {"unique_id", "location", "device", "device_info"}
      [] cls = "LyricAccessoryEntity" -> {"unique_id", "location", "device", "device_info",
                                          "room", "accessory"}
      [] cls = "LyricLeakEntity"      -> {"unique_id", "location", "device", "device_info"}

\* The read of property p of adapter e, by the class's method resolution.
Read(e, p, o) ==
    CASE p = "unique_id" -> UniqueId(e, o, 1)
      [] p = "location"  -> LocationOf(e, o, 1)
      [] p = "device"    -> IF e.cls = "LyricLeakEntity" THEN LeakDeviceOf(e, o, 1)
                            ELSE DeviceOf(e, o, 1)
      [] p = "room"      -> RoomOf(e, o, 1)
      [] p = "accessory" -> AccessoryOf(e, o, 1)
      [] p = "device_info" ->
            CASE e.cls = "LyricLeakEntity"      -> LeakDeviceInfo(e, o, 1)
              [] e.cls = "LyricAccessoryEntity" -> AccessoryDeviceInfo(e, o, 1)
              [] OTHER                          -> DeviceInfo(e, o, 1)

----------------------------------------------------------------------------
\* The state machine.

Init ==
    /\ data \in UNION {SetupSnapshots(c) : c \in Classes}
    /\ ent = NoEntity
    /\ given = NoEntity
    /\ pc = "new"
    /\ prop = "none"
    /\ called = NoSnapshot
    /\ obs = <<>>
    /\ ret = NoOutcome

\* The host sets an entity up over a location and a device of the current snapshot.
Construct ==
    /\ pc = "new"
    /\ \E cls \in Classes, l \in DOMAIN data.locations_dict, key \in Keys :
         LET location == data.locations_dict[l] IN
         \E d \in 1..Len(location.devices) :
           LET device == location.devices[d] IN
           /\ data \in SetupSnapshots(cls)
           /\ IF cls = "LyricAccessoryEntity"
              THEN /\ device.mac_id \in DOMAIN data.rooms_dict
                   /\ \E r \in DOMAIN data.rooms_dict[device.mac_id] :
                        LET room == data.rooms_dict[device.mac_id][r] IN
                        \E a \in 1..Len(room.accessories) :
                          /\ ent' = LyricAccessoryEntityInit(data, location, device, room,
                                                             room.accessories[a], key)
                          /\ given' = [cls |-> cls, location |-> location, device |-> device,
                                       room |-> room, accessory |-> room.accessories[a],
                                       key |-> key]
              ELSE /\ ent' = IF cls = "LyricLeakEntity"
                             THEN LyricLeakEntityInit(data, location, device, key)
                             ELSE LyricEntityInit(cls, data, location, device, key)
                   /\ given' = [cls |-> cls, location |-> location, device |-> device,
                                key |-> key]
    /\ pc' = "idle"
    /\ UNCHANGED <<data, prop, called, obs, ret>>

\* A read with suspension points: the event loop runs other callbacks during it.
SuspendedAnywhere(at) == TRUE

\* Whether the event loop can run another callback while the host's call is at pc:
\* the properties are plain functions without a suspension point.
Suspended(at) == at = "idle"

\* The coordinator replaces the snapshot.
Refresh ==
    /\ pc # "new"
    /\ Suspended(pc)
    /\ data' \in SnapshotsFor(ent.cls) \ {data}
    /\ UNCHANGED <<ent, given, pc, prop, called, obs, ret>>

\* The host reads property p.
Call(p) ==
    /\ pc = "idle"
    /\ p \in Props(ent.cls)
    /\ pc' = "run"
    /\ prop' = p
    /\ called' = data
    /\ obs' = <<>>
    /\ ret' = NoOutcome
    /\ UNCHANGED <<data, ent, given>>

\* The read evaluates self.coordinator.data once more.
Access ==
    /\ pc = "run"
    /\ Read(ent, prop, [seen |-> obs, cur |-> data]).used > Len(obs)
    /\ obs' = Append(obs, data)
    /\ UNCHANGED <<data, ent, given, pc, prop, called, ret>>

\* The read ends, and a device found by the fallback scan is put into devices_dict.
FinishCaching ==
    /\ pc = "run"
    /\ Read(ent, prop, [seen |-> obs, cur |-> data]).used <= Len(obs)
    /\ ret' = Read(ent, prop, [seen |-> obs, cur |-> data]).res
    /\ pc' = "done"
    /\ data' = IF ent.cls = "LyricLeakEntity" /\ prop = "device" /\ ret'.out = "return"
               THEN [data EXCEPT !.locations_dict[ent._location.location_id].devices_dict =
                                     (ent._device_id :> ret'.value) @@ @]
               ELSE data
    /\ UNCHANGED <<ent, given, prop, called, obs>>

\* The read ends: it returns or raises.
Finish ==
    /\ pc = "run"
    /\ Read(ent, prop, [seen |-> obs, cur |-> data]).used <= Len(obs)
    /\ ret' = Read(ent, prop, [seen |-> obs, cur |-> data]).res
    /\ pc' = "done"
    /\ UNCHANGED <<data, ent, given, prop, called, obs>>

\* The host takes the outcome.
Resume ==
    /\ pc = "done"
    /\ pc' = "idle"
    /\ prop' = "none"
    /\ called' = NoSnapshot
    /\ obs' = <<>>
    /\ ret' = NoOutcome
    /\ UNCHANGED <<data, ent, given>>

Next ==
    \/ Construct
    \/ Refresh
    \/ \E p \in {"unique_id", "location", "device", "device_info", "room", "accessory"} : Call(p)
    \/ Access
    \/ Finish
    \/ Resume

Spec == Init /\ [][Next]_vars

----------------------------------------------------------------------------
\* Properties.

\* A read of property p has just ended on an adapter of one of the classes.
Ended(classes, p) == pc = "done" /\ prop = p /\ ent.cls \in classes

\* The location the adapter was built over is in the current snapshot.
LocationPresent ==
    given.location.location_id \in DOMAIN data.locations_dict

CurrentLocation == data.locations_dict[given.location.location_id]

\* C1: a `device` read of a LyricEntity/LyricDeviceEntity built over location L and
\* device D returns the entry the current snapshot holds under L and D's MAC, and ends
\* in an error when the current snapshot lacks L or lacks the MAC in L; it never
\* returns the device of an earlier snapshot.
C1_DeviceFollowsSnapshot ==
    Ended({"LyricEntity", "LyricDeviceEntity"}, "device") =>
        IF /\ LocationPresent
           /\ given.device.mac_id \in DOMAIN CurrentLocation.devices_dict
        THEN ret = Return(CurrentLocation.devices_dict[given.device.mac_id])
        ELSE ret.out = "raise"

\* The device the adapter was built over was removed by a refresh, and the read failed.
C1_Witness ==
    /\ Ended({"LyricEntity", "LyricDeviceEntity"}, "device")
    /\ given.device.mac_id \in DOMAIN given.location.devices_dict
    /\ LocationPresent
    /\ given.device.mac_id \notin DOMAIN CurrentLocation.devices_dict
    /\ ret = Raise("KeyError")


\* The positions of the entries of a list whose field equals v.
Matches(xs, Field(_), v) == {k \in 1..Len(xs) : Field(xs[k]) = v}

Min(S) == CHOOSE k \in S : \A j \in S : k <= j

DeviceIdOf(d) == d.device_id

IdOf(a) == a.id

\* C2: a `device` read of a LyricLeakEntity, whatever the current location holds:
\* a hit of the keyed lookup returns that entry; on a miss the first entry of `devices`
\* with the stored device id is returned; with no such entry the read returns None
\* and raises nothing.
C2_LeakDeviceNeverRaises ==
    (Ended({"LyricLeakEntity"}, "device") /\ LocationPresent) =>
        LET id      == given.device.device_id
            matches == Matches(CurrentLocation.devices, DeviceIdOf, id)
        IN  IF id \in DOMAIN CurrentLocation.devices_dict
            THEN ret = Return(CurrentLocation.devices_dict[id])
            ELSE IF matches # {}
            THEN ret = Return(CurrentLocation.devices[Min(matches)])
            ELSE ret = ReturnNone

\* The attributes an adapter may keep if it keeps identifiers and the coordinator only.
IdentifierAttributes ==
    {"cls", "coordinator", "_key", "_mac_id", "_device_id", "_room_id", "_accessory_id"}

\* C3 as stated: an adapter keeps identifiers and the coordinator handle and nothing
\* else, so none of its attributes refers to an object of the snapshot it was built from.
C3_OnlyIdentifiersKept ==
    pc # "new" => DOMAIN ent \subseteq IdentifierAttributes

\* The adapter with what it kept of the construction-time snapshot emptied, the
\* location's identifier left.
Scrubbed(e) ==
    [f \in DOMAIN e |->
        CASE f = "_location" -> Location(e._location.location_id, <<>>, EmptyDict)
          [] f \in {"_update_thermostat", "_update_fan"} -> BoundMethod(NoSnapshot, e[f].im_func)
          [] OTHER -> e[f]]

\* C3 amended: besides identifiers and the coordinator handle an adapter keeps the
\* location object it was built over (and LyricEntity and its subclasses the
\* update_thermostat and update_fan methods bound to the construction-time
\* coordinator.data) and no device, room or accessory object; the identifiers are
\* those of the constructor's arguments, and a read takes nothing but location_id from
\* the kept location: its outcome is that of the same read on an adapter whose kept
\* objects are emptied.
C3_KeepsLocationReadsOnlyItsId ==
    pc # "new" =>
        /\ DOMAIN ent \subseteq
              IdentifierAttributes \cup {"_location", "_update_thermostat", "_update_fan"}
        /\ ent._location = given.location
        /\ ent._key = given.key
        /\ ent.cls = "LyricLeakEntity" => ent._device_id = given.device.device_id
        /\ ent.cls # "LyricLeakEntity" => ent._mac_id = given.device.mac_id
        /\ ent.cls = "LyricAccessoryEntity" =>
              /\ ent._room_id = given.room.id
              /\ ent._accessory_id = given.accessory.id
        /\ pc = "done" => ret = Read(Scrubbed(ent), prop, Against(data)).res

\* A read returned a device of the current snapshot that differs from the one in the
\* location the adapter still keeps.
C3_Witness ==
    /\ pc = "done"
    /\ prop = "device"
    /\ ret.out = "return"
    /\ ent._location # CurrentLocation
    /\ ret.value \notin {ent._location.devices[k] : k \in 1..Len(ent._location.devices)}

\* C4: `unique_id` of every adapter returns the key given at construction, whatever
\* refreshes and reads came before and whatever the current snapshot is.
C4_UniqueIdIsKey ==
    Ended(Classes, "unique_id") => ret = Return(given.key)

\* unique_id was read after a refresh that emptied the snapshot.
C4_Witness ==
    /\ Ended(Classes, "unique_id")
    /\ data = Snapshot(EmptyDict, EmptyDict)
    /\ ret = Return(given.key)

\* rooms_dict[mac][room_id] of the current snapshot resolves.
RoomPresent ==
    /\ given.device.mac_id \in DOMAIN data.rooms_dict
    /\ given.room.id \in DOMAIN data.rooms_dict[given.device.mac_id]

CurrentRoom == data.rooms_dict[given.device.mac_id][given.room.id]

\* C5: `accessory` returns the first accessory of the current room whose id is the
\* stored accessory id, never one with another id, and ends in an error when the room
\* has no such accessory or the MAC or room id is not in rooms_dict.
C5_AccessoryIsFirstMatch ==
    Ended({"LyricAccessoryEntity"}, "accessory") =>
        IF RoomPresent /\ Matches(CurrentRoom.accessories, IdOf, given.accessory.id) # {}
        THEN /\ ret = Return(CurrentRoom.accessories[
                                Min(Matches(CurrentRoom.accessories, IdOf, given.accessory.id))])
             /\ ret.value.id = given.accessory.id
        ELSE ret.out = "raise"

\* The room holds the accessory id twice and the first one was returned.
C5_Witness ==
    /\ Ended({"LyricAccessoryEntity"}, "accessory")
    /\ RoomPresent
    /\ Len(CurrentRoom.accessories) = 2
    /\ CurrentRoom.accessories[1].id = CurrentRoom.accessories[2].id
    /\ CurrentRoom.accessories[1] # CurrentRoom.accessories[2]
    /\ ret = Return(CurrentRoom.accessories[1])

\* C6: no step of an adapter operation (construction, a call, an evaluation of the
\* snapshot, the return or the raise of a read) changes coordinator.data; only the
\* refresh, which runs between the host's calls, replaces it.
C6_ReadsLeaveSnapshot ==
    [][(pc # "idle" \/ pc' # "idle") => data' = data]_vars

\* A leak adapter's fallback scan found its device, which the keyed lookup had missed.
C6_Witness ==
    /\ Ended({"LyricLeakEntity"}, "device")
    /\ LocationPresent
    /\ given.device.device_id \notin DOMAIN CurrentLocation.devices_dict
    /\ ret.out = "return"
    /\ data = called

\* C7: LyricDeviceEntity.device_info, when `device` resolves in the current snapshot,
\* returns identifiers = connections = {(MAC namespace, MAC given at construction)},
\* manufacturer "Honeywell", the current device's model and "<current name> Thermostat";
\* when `device` does not resolve it ends in an error.
C7_DeviceInfoOfThermostat ==
    Ended({"LyricDeviceEntity"}, "device_info") =>
        IF /\ LocationPresent
           /\ given.device.mac_id \in DOMAIN CurrentLocation.devices_dict
        THEN LET device == CurrentLocation.devices_dict[given.device.mac_id]
             IN  ret = Return([identifiers  |-> {<<"mac", given.device.mac_id>>},
                               connections  |-> {<<"mac", given.device.mac_id>>},
                               manufacturer |-> "Honeywell",
                               model        |-> device.device_model,
                               name         |-> device.name \o " Thermostat"])
        ELSE ret.out = "raise"

\* The thermostat was renamed by a refresh and the descriptor carries the new name.
C7_Witness ==
    /\ Ended({"LyricDeviceEntity"}, "device_info")
    /\ given.device.name = "Office"
    /\ ret.out = "return"
    /\ ret.value.name = "Den Thermostat"
    /\ ret.value.model = "T9"
    /\ ret.value.identifiers = {<<"mac", "AA:BB">>}

\* Room and accessory ids an accessory adapter can be built over.
RoomIds == {1, 2, 11, 12}

AccessoryIds == {0, 1, 2, 11, 12}

\* C8: LyricAccessoryEntity.device_info, when `room` resolves in the current snapshot,
\* returns the identifier "<mac>_room<room_id>_accessory<accessory_id>" of the
\* identifiers given at construction, manufacturer "Honeywell", model "RCHTSENSOR",
\* "<current room name> Sensor" and via_device = (MAC namespace, MAC), the identifier
\* pair of the parent thermostat's LyricDeviceEntity.device_info; no adapter built over
\* another (mac, room id, accessory id) gets the same identifier; when `room` does not
\* resolve the read ends in an error.
C8_DeviceInfoOfAccessory ==
    Ended({"LyricAccessoryEntity"}, "device_info") =>
        IF RoomPresent
        THEN LET mine   == <<given.device.mac_id, given.room.id, given.accessory.id>>
                 parent == DeviceInfo(LyricEntityInit("LyricDeviceEntity", data, given.location,
                                                      given.device, given.key),
                                      Against(data), 1).res
             IN  /\ ret = Return([identifiers  |->
                                     {<<"mac_room_accessory",
                                        mine[1] \o "_room" \o DecStr(mine[2])
                                                \o "_accessory" \o DecStr(mine[3])>>},
                                  manufacturer |-> "Honeywell",
                                  model        |-> "RCHTSENSOR",
                                  name         |-> CurrentRoom.room_name \o " Sensor",
                                  via_device   |-> <<"mac", mine[1]>>])
                 /\ parent.out = "return"
                 /\ parent.value.identifiers = {ret.value.via_device}
                 /\ \A other \in (Macs \X RoomIds \X AccessoryIds) \ {mine} :
                       \A pair \in ret.value.identifiers :
                          pair[2] # AccessoryIdentifier(other[1], other[2], other[3])
        ELSE ret.out = "raise"

\* The room was renamed by a refresh and the descriptor carries the new name.
C8_Witness ==
    /\ Ended({"LyricAccessoryEntity"}, "device_info")
    /\ given.room.room_name = "Kitchen"
    /\ ret.out = "return"
    /\ ret.value.name = "Hall Sensor"
    /\ ret.value.identifiers = {<<"mac_room_accessory", "AA:BB_room1_accessory1">>}

\* C9: the outcome of every read is the outcome of the same read run entirely against
\* the snapshot that was current when it was called, however many times the read
\* evaluates coordinator.data and wherever the refreshes fall.
C9_ReadSeesOneGeneration ==
    pc = "done" => ret = Read(ent, prop, Against(called)).res

\* A leak adapter's device read evaluated the snapshot three times (keyed lookup,
\* length, scan) against a refreshed snapshot.
C9_Witness ==
    /\ Ended({"LyricLeakEntity"}, "device")
    /\ Len(obs) = 3
    /\ called # ent._location
    /\ LocationPresent
    /\ CurrentLocation # ent._location
    /\ ret.out = "return"

\* The current snapshot's leak device, if `device` resolves to one.
CurrentLeakDevice == LeakDeviceOf(ent, Against(data), 1).res

\* `device` resolves to a device with a "deviceSettings" mapping holding "userDefinedName".
LeakDeviceNamed ==
    /\ CurrentLeakDevice.out = "return"
    /\ "deviceSettings" \in DOMAIN CurrentLeakDevice.value.attributes
    /\ CurrentLeakDevice.value.attributes["deviceSettings"].mapping
    /\ "userDefinedName" \in DOMAIN CurrentLeakDevice.value.attributes["deviceSettings"].items

\* C10: LyricLeakEntity.device_info returns identifiers {(DOMAIN, device id)},
\* manufacturer "Honeywell", model = device type and "<userDefinedName> <device type>"
\* exactly when `device` resolves to a device with a "deviceSettings" mapping holding
\* "userDefinedName"; otherwise, also when `device` yields None, it ends in an error.
C10_LeakDeviceInfo ==
    Ended({"LyricLeakEntity"}, "device_info") =>
        IF LeakDeviceNamed
        THEN ret = Return([identifiers  |-> {<<LyricDomain, given.device.device_id>>},
                           manufacturer |-> "Honeywell",
                           model        |-> CurrentLeakDevice.value.device_type,
                           name         |->
                               CurrentLeakDevice.value.attributes["deviceSettings"]
                                   .items["userDefinedName"]
                               \o " " \o CurrentLeakDevice.value.device_type])
        ELSE ret.out = "raise"

\* `device` yielded None after the fallback scan, and device_info raised.
C10_Witness ==
    /\ Ended({"LyricLeakEntity"}, "device_info")
    /\ CurrentLeakDevice = ReturnNone
    /\ ret = Raise("AttributeError")

=============================================================================
